---- MODULE Spec2Model ----
(***************************************************************************)
(* A model of src/ml-levenberg-marquardt.js: option validation             *)
(* (checkOptions), the weighted error (errorCalculation), the finite       *)
(* difference Jacobian (gradientFunction), the damped normal-equations     *)
(* solve (step) and the main loop (levenbergMarquardt).                    *)
(*                                                                         *)
(* Numbers.  A JavaScript number is modelled as an extended rational       *)
(* [n, d]: d > 0 is the finite value n/d in lowest terms, d = 0 is one of  *)
(* the IEEE specials: n = 0 NaN, n = 1 +Infinity, n = -1 -Infinity.        *)
(* Arithmetic follows IEEE-754 for the specials (NaN propagates, x/0 is    *)
(* an infinity or NaN, every comparison with NaN is false) and is exact    *)
(* on finite values: rounding is not modelled, and a zero is +0 (the       *)
(* matrix products of the solve accumulate from +0).                       *)
(***************************************************************************)
EXTENDS Integers, Sequences, FiniteSets, TLC

\* ------------------------------------------------------------ numbers

Abs(i) == IF i < 0 THEN -i ELSE i

Sign(i) == IF i < 0 THEN -1 ELSE IF i > 0 THEN 1 ELSE 0

RECURSIVE GCD(_, _)
GCD(a, b) == IF b = 0 THEN a ELSE GCD(b, a % b)

NaN == [n |-> 0, d |-> 0]

PInf == [n |-> 1, d |-> 0]

NInf == [n |-> -1, d |-> 0]

Inf(s) == IF s < 0 THEN NInf ELSE PInf

\* the finite value n/d (d # 0), in lowest terms with a positive denominator
Rat(n, d) ==
    LET g == GCD(Abs(n), Abs(d))
    IN  [n |-> Sign(d) * (n \div g), d |-> Abs(d) \div g]

Int2Num(i) == [n |-> i, d |-> 1]

Zero == Int2Num(0)

One == Int2Num(1)

IsNaN(a) == a.d = 0 /\ a.n = 0

IsInf(a) == a.d = 0 /\ a.n # 0

IsFinite(a) == a.d # 0

Neg(a) == [n |-> -a.n, d |-> a.d]

\* a + b
Add(a, b) ==
    IF IsNaN(a) \/ IsNaN(b) THEN NaN
    ELSE IF IsInf(a) THEN (IF IsInf(b) /\ b.n # a.n THEN NaN ELSE a)
    ELSE IF IsInf(b) THEN b
    ELSE LET g == GCD(a.d, b.d)
         IN  Rat(a.n * (b.d \div g) + b.n * (a.d \div g), (a.d \div g) * b.d)

\* a - b
Sub(a, b) == Add(a, Neg(b))

\* a * b
Mul(a, b) ==
    IF IsNaN(a) \/ IsNaN(b) THEN NaN
    ELSE IF IsInf(a) \/ IsInf(b)
         THEN (IF a.n = 0 \/ b.n = 0 THEN NaN ELSE Inf(Sign(a.n) * Sign(b.n)))
    ELSE LET g1 == GCD(Abs(a.n), b.d)
             g2 == GCD(Abs(b.n), a.d)
         IN  [n |-> (a.n \div g1) * (b.n \div g2),
              d |-> (a.d \div g2) * (b.d \div g1)]

\* a / b
Div(a, b) ==
    IF IsNaN(a) \/ IsNaN(b) THEN NaN
    ELSE IF IsInf(b) THEN (IF IsInf(a) THEN NaN ELSE Zero)
    ELSE IF IsInf(a) THEN (IF b.n < 0 THEN Neg(a) ELSE a)
    ELSE IF b.n = 0 THEN (IF a.n = 0 THEN NaN ELSE Inf(a.n))
    ELSE Mul(a, [n |-> Sign(b.n) * b.d, d |-> Abs(b.n)])

\* Math.pow(a, 2)
Sq(a) == Mul(a, a)

\* a/b < c/d for b, d > 0, without forming the cross products
RECURSIVE FracLess(_, _, _, _)
FracLess(a, b, c, d) ==
    LET qa == a \div b
        qc == c \div d
        ra == a % b
        rc == c % d
    IN  IF qa # qc THEN qa < qc
        ELSE IF rc = 0 THEN FALSE
        ELSE IF ra = 0 THEN TRUE
        ELSE FracLess(d, rc, b, ra)

\* a < b
Lt(a, b) ==
    IF IsNaN(a) \/ IsNaN(b) THEN FALSE
    ELSE IF IsInf(a) THEN a.n < 0 /\ b # a
    ELSE IF IsInf(b) THEN b.n > 0
    ELSE FracLess(a.n, a.d, b.n, b.d)

\* a > b
Gt(a, b) == Lt(b, a)

\* a <= b
Le(a, b) == ~IsNaN(a) /\ ~IsNaN(b) /\ ~Lt(b, a)

\* Math.max(a, b)
Max(a, b) == IF IsNaN(a) \/ IsNaN(b) THEN NaN ELSE IF Lt(a, b) THEN b ELSE a

\* Math.min(a, b)
Min(a, b) == IF IsNaN(a) \/ IsNaN(b) THEN NaN ELSE IF Lt(b, a) THEN b ELSE a

\* ------------------------------------------------------- JS values

\* a caller-supplied value: undefined, a number, an array of numbers, or a
\* value of another type (a string, an object)
Undef == [t |-> "undef"]

Num(v) == [t |-> "num", v |-> v]

Arr(s) == [t |-> "arr", v |-> s]

Other == [t |-> "other"]

\* a destructuring default: `name = d` takes d only for undefined
Default(o, d) == IF o.t = "undef" THEN Num(d) ELSE o

\* seq[i - 1] of JavaScript: undefined, which arithmetic turns into NaN,
\* outside the array
At(seq, i) == IF i \in 1..Len(seq) THEN seq[i] ELSE NaN

\* new Array(n).fill(v)
Fill(n, v) == [i \in 1..n |-> v]

RECURSIVE SumTo(_, _)
\* s = 0; for (i = 1..n) s += f[i]
SumTo(f, n) == IF n = 0 THEN Zero ELSE Add(SumTo(f, n - 1), f[n])

\* Number.MAX_SAFE_INTEGER (2^53 - 1) does not fit the checker's integers;
\* the largest integer that does stands for it.  It is only ever compared.
MaxSafeInteger == Int2Num(2147483647)

\* ------------------------------------------------- the model function

\* parameterizedFunction.length, the declared arity of the factory
Arity(fn) == IF fn = "line" THEN 2 ELSE 1

\* parameterizedFunction(params)(xv) for the factories of the model:
\*   line   ([a, b]) => (t) => a * t + b
\*   prop   ([a])    => (t) => a * t
\*   sqr    ([a])    => (t) => a * a * t
\*   flat   ([a])    => (t) => 1
\*   root   ([a])    => (t) => NaN for a < 0 (as Math.sqrt(a) * t), else a * t
Eval(fn, params, xv) ==
    CASE fn = "line" -> Add(Mul(At(params, 1), xv), At(params, 2))
      [] fn = "prop" -> Mul(At(params, 1), xv)
      [] fn = "sqr"  -> Mul(Mul(At(params, 1), At(params, 1)), xv)
      [] fn = "flat" -> One
      [] fn = "root" -> IF Lt(At(params, 1), Zero) \/ IsNaN(At(params, 1))
                        THEN NaN ELSE Mul(At(params, 1), xv)

\* ------------------------------------------------------- checkOptions

DefaultDamping == Rat(1, 100)

DefaultDampingStepUp == Int2Num(11)

DefaultDampingStepDown == Int2Num(9)

DefaultMaxIterations == 100

DefaultErrorTolerance == Rat(1, 10000000)

DefaultGradientDifference == Rat(1, 10)

DefaultImprovementThreshold == Rat(1, 1000)

\* damping <= 0
DampingError(damping) == Le(damping, Zero)

\* DataError without its last test, the one of the two lengths
DataErrorNoSizeCheck(x, y) ==
    IF x.t = "undef" \/ y.t = "undef" THEN "input: xy"
    ELSE IF x.t # "arr" \/ y.t # "arr" THEN "input: points"
    ELSE IF Len(x.v) < 2 \/ Len(y.v) < 2 THEN "input: points"
    ELSE "none"

\* the checks of data.x and data.y (lines 29-42), "none" when they pass
DataError(x, y) ==
    IF x.t = "undef" \/ y.t = "undef" THEN "input: xy"
    ELSE IF x.t # "arr" \/ Len(x.v) < 2 \/ y.t # "arr" \/ Len(y.v) < 2
         THEN "input: points"
    ELSE IF Len(x.v) # Len(y.v) THEN "input: size"
    ELSE "none"

\* parameters = initialValues || new Array(parameterizedFunction.length).fill(1)
InitialParameters(fn, options) ==
    IF options.initialValues.t = "undef" THEN Fill(Arity(fn), One)
    ELSE options.initialValues.v

\* maxValues = maxValues || new Array(parLen).fill(Number.MAX_SAFE_INTEGER)
ResolveMaxValues(options, parLen) ==
    IF options.maxValues.t = "undef" THEN Fill(parLen, MaxSafeInteger)
    ELSE options.maxValues.v

\* minValues = minValues || new Array(parLen).fill(Number.MIN_SAFE_INTEGER)
ResolveMinValues(options, parLen) ==
    IF options.minValues.t = "undef" THEN Fill(parLen, Neg(MaxSafeInteger))
    ELSE options.minValues.v

\* the gradientDifference sequence: a number is broadcast, an array of another
\* length than the parameters is replaced by its first element broadcast
ResolveGradientDifference(options, parLen) ==
    LET gd == Default(options.gradientDifference, DefaultGradientDifference)
    IN  IF gd.t = "num" THEN Fill(parLen, gd.v)
        ELSE IF Len(gd.v) # parLen THEN Fill(parLen, At(gd.v, 1))
        ELSE gd.v

\* weightSquare[i] = filler(i) = 1 / Math.pow(w, 2) for i < nbPoints =
\* data.y.length; an array shorter than data.x is replaced by its first element
ResolveWeightSquare(options, xLength, nbPoints) ==
    LET w == Default(options.weights, One)
    IN  IF w.t = "num" THEN Fill(nbPoints, Div(One, Sq(w.v)))
        ELSE IF Len(w.v) < xLength THEN Fill(nbPoints, Div(One, Sq(At(w.v, 1))))
        ELSE [i \in 1..nbPoints |-> Div(One, Sq(At(w.v, i)))]

\* the message checkOptions throws, "none" when it returns
OptionsError(x, y, fn, options) ==
    LET parLen == Len(InitialParameters(fn, options))
    IN  IF DampingError(Default(options.damping, DefaultDamping).v) THEN "input: damping"
        ELSE IF DataError(x, y) # "none" THEN DataError(x, y)
        ELSE IF Len(ResolveMaxValues(options, parLen))
                    # Len(ResolveMinValues(options, parLen)) THEN "input: bounds"
        ELSE IF Default(options.gradientDifference, DefaultGradientDifference).t
                    \notin {"num", "arr"} THEN "input: gradientDifference"
        ELSE IF Default(options.weights, One).t \notin {"num", "arr"} THEN "input: weights"
        ELSE IF options.timeout.t \notin {"undef", "num"} THEN "input: timeout"
        ELSE "none"

\* let endTime = Date.now() + timeout * 1000
EndTime(clockNow, timeout) == Add(clockNow, Mul(timeout, Int2Num(1000)))

\* Expired with >= for >
ExpiredAtOrAfter(clockNow, endTime) == ~Lt(clockNow, endTime)

\* checkTimeout = () => Date.now() > endTime
Expired(clockNow, endTime) == Gt(clockNow, endTime)

\* the bundle checkOptions returns, but for parameters and damping (the two
\* the loop assigns), which are variables of their own
Resolved(x, y, fn, options, clockNow) ==
    LET parLen == Len(InitialParameters(fn, options))
    IN  [hasTimeout |-> options.timeout.t # "undef",
         endTime |-> IF options.timeout.t = "undef" THEN Zero
                     ELSE EndTime(clockNow, options.timeout.v),
         minValues |-> ResolveMinValues(options, parLen),
         maxValues |-> ResolveMaxValues(options, parLen),
         weightSquare |-> ResolveWeightSquare(options, Len(x.v), Len(y.v)),
         dampingStepUp |-> Default(options.dampingStepUp, DefaultDampingStepUp).v,
         dampingStepDown |-> Default(options.dampingStepDown, DefaultDampingStepDown).v,
         maxIterations |-> IF options.maxIterations.t = "undef"
                           THEN DefaultMaxIterations ELSE options.maxIterations.v,
         errorTolerance |-> Default(options.errorTolerance, DefaultErrorTolerance).v,
         centralDifference |-> options.centralDifference,
         gradientDifference |-> ResolveGradientDifference(options, parLen),
         improvementThreshold |->
             Default(options.improvementThreshold, DefaultImprovementThreshold).v]

\* --------------------------------------------------- errorCalculation

\* error += Math.pow(data.y[i] - func(data.x[i]), 2) / weightSquare[i],
\* over i < data.x.length
errorCalculation(x, y, parameters, fn, weightSquare) ==
    SumTo([i \in 1..Len(x) |->
              Div(Sq(Sub(At(y, i), Eval(fn, parameters, x[i]))), At(weightSquare, i))],
          Len(x))

\* the calls of the factory one errorCalculation makes
ErrorCalls == 1

\* --------------------------------------------------- gradientFunction

\* the parameters whose row is computed, in order: those the loop does not
\* `continue` past
ActiveParams(gradientDifference) ==
    SelectSeq([k \in 1..Len(gradientDifference) |-> k],
              LAMBDA k : gradientDifference[k] # Zero)

\* params.slice() with element k changed by delta
Perturbed(params, k, delta) == [params EXCEPT ![k] = Add(params[k], delta)]

\* the row written for parameter `param`
GradientRow(x, evaluatedData, params, param, delta, fn, centralDifference) ==
    IF ~centralDifference
    THEN [point \in 1..Len(x) |->
            Div(Sub(evaluatedData[point],
                    Eval(fn, Perturbed(params, param, delta), x[point])),
                delta)]
    ELSE [point \in 1..Len(x) |->
            Div(Sub(Eval(fn, Perturbed(params, param, Neg(delta)), x[point]),
                    Eval(fn, Perturbed(params, param, delta), x[point])),
                Mul(delta, Int2Num(2)))]

\* Matrix.zeros(nbParams, nbPoints), then the row of the r-th active parameter
\* written at rowIndex = r - 1: the rows past the active ones stay zero
gradientFunction(x, evaluatedData, params, gradientDifference, fn, centralDifference) ==
    LET active == ActiveParams(gradientDifference)
    IN  [row \in 1..Len(params) |->
            IF row <= Len(active)
            THEN GradientRow(x, evaluatedData, params, active[row],
                             gradientDifference[active[row]], fn, centralDifference)
            ELSE Fill(Len(x), Zero)]

\* the calls of the factory one gradientFunction makes
GradientCalls(gradientDifference, centralDifference) ==
    Len(ActiveParams(gradientDifference)) * (IF centralDifference THEN 2 ELSE 1)

\* ------------------------------------------------------------- step

\* matrixFunction: data.y[point] - evaluatedData[point]
matrixFunction(y, evaluatedData) ==
    [point \in 1..Len(evaluatedData) |-> Sub(At(y, point), evaluatedData[point])]

\* identity.add(gradientFunc.mmul(gradientFunc.transpose().scale('row', weights))):
\* scale('row') divides row i of the transpose by weights[i]
NormalMatrix(J, damping, weights) ==
    [a \in 1..Len(J) |-> [b \in 1..Len(J) |->
        Add(IF a = b THEN damping ELSE Zero,
            SumTo([i \in 1..Len(J[a]) |-> Mul(J[a][i], Div(J[b][i], At(weights, i)))],
                  Len(J[a])))]]

\* mlMatrix.inverse of a 1 x 1 or 2 x 2 matrix (the LU solve against the
\* identity, which in exact arithmetic is the adjugate over the determinant)
Inverse(A) ==
    IF Len(A) = 1 THEN <<<<Div(One, A[1][1])>>>>
    ELSE LET det == Sub(Mul(A[1][1], A[2][2]), Mul(A[1][2], A[2][1]))
         IN  <<<<Div(A[2][2], det), Div(Neg(A[1][2]), det)>>,
               <<Div(Neg(A[2][1]), det), Div(A[1][1], det)>>>>

\* matrix (rows) times column vector
MulVec(M, v) ==
    [a \in 1..Len(M) |-> SumTo([b \in 1..Len(v) |-> Mul(M[a][b], v[b])], Len(v))]

\* gradientFunc.mmul(residualError.scale('row', weights))
JacobianWeightResidualError(J, residualError, weights) ==
    MulVec(J, [i \in 1..Len(residualError) |-> Div(residualError[i], At(weights, i))])

\* step: the perturbations and the weighted Jacobian-residual product
step(x, y, params, damping, gradientDifference, fn, centralDifference, weights) ==
    LET evaluatedData == [i \in 1..Len(x) |-> Eval(fn, params, x[i])]
        gradientFunc == gradientFunction(x, evaluatedData, params, gradientDifference,
                                         fn, centralDifference)
        residualError == matrixFunction(y, evaluatedData)
        inverseMatrix == Inverse(NormalMatrix(gradientFunc, damping, weights))
        jwre == JacobianWeightResidualError(gradientFunc, residualError, weights)
    IN  [perturbations |-> MulVec(inverseMatrix, jwre),
         jacobianWeigthResidualError |-> jwre]

\* the calls of the factory one step makes
StepCalls(gradientDifference, centralDifference) ==
    1 + GradientCalls(gradientDifference, centralDifference)

\* --------------------------------------------------- the loop's pieces

\* Clamp without the upper bound
ClampLowOnly(lo, v, hi) == Max(lo, v)

\* Math.min(Math.max(lo, v), hi)
Clamp(lo, v, hi) == Min(Max(lo, v), hi)

\* the for loop over k: the clamped candidate
Candidate(parameters, perturbations, minValues, maxValues) ==
    [k \in 1..Len(parameters) |->
        Clamp(At(minValues, k), Sub(parameters[k], perturbations[k]), At(maxValues, k))]

\* perturbations.transpose().mmul(perturbations.mulS(damping).add(jwre)).get(0, 0)
MetricDenominator(perturbations, damping, jwre) ==
    SumTo([k \in 1..Len(perturbations) |->
              Mul(perturbations[k], Add(Mul(perturbations[k], damping), jwre[k]))],
          Len(perturbations))

ImprovementMetric(previousError, error, perturbations, damping, jwre) ==
    Div(Sub(previousError, error), MetricDenominator(perturbations, damping, jwre))

\* Accepted without the test: every step is taken as an improvement
AcceptedAlways(improvementMetric, improvementThreshold) == TRUE

\* improvementMetric > improvementThreshold
Accepted(improvementMetric, improvementThreshold) ==
    Gt(improvementMetric, improvementThreshold)

DampingMin == Rat(1, 10000000)

DampingMax == Int2Num(10000000)

\* DampingDown without the clamp
DampingDownUnclamped(damping, dampingStepDown) == Div(damping, dampingStepDown)

\* damping = Math.max(damping / dampingStepDown, 1e-7)
DampingDown(damping, dampingStepDown) == Max(Div(damping, dampingStepDown), DampingMin)

\* damping = Math.min(damping * dampingStepUp, 1e7)
DampingUp(damping, dampingStepUp) == Min(Mul(damping, dampingStepUp), DampingMax)

\* Diverged without the test: the loop never breaks
DivergedNever(error) == FALSE

\* if (isNaN(error)) break
Diverged(error) == IsNaN(error)

\* converged = error <= errorTolerance
Converged(error, errorTolerance) == Le(error, errorTolerance)

\* LoopCond stopping one iteration early
LoopCondOffByOne(iteration, maxIterations, converged) ==
    iteration + 1 < maxIterations /\ ~converged

\* the loop condition: iteration < maxIterations && !converged
LoopCond(iteration, maxIterations, converged) ==
    iteration < maxIterations /\ ~converged

\* ------------------------------------------------------------ bounds

\* the largest maxIterations option of the numeric calls
MaxIter == 2

\* the most milliseconds the clock advances between two reads of Date.now()
MaxTick == 1

\* the longest data.x / data.y of the calls that validation may reject
MaxLen == 3

\* ------------------------------------------------------------- state

VARIABLES
    pc,             \* "start", "init", "loop", "done" (returned), "error" (threw)
    errKind,        \* "none", or what was thrown: "input: ..." or "timeout"
    x, y,           \* data.x, data.y, the caller's
    fn,             \* parameterizedFunction, the caller's factory
    options,        \* the caller's options object and the arrays it refers to
    given,          \* the options as they were when the call was made
    cfg,            \* what checkOptions returned
    parameters,     \* the parameter vector (options.initialValues itself, if given)
    damping,
    error,
    converged,
    iteration,
    previousError,  \* locals of the loop body, as the last iteration left them
    perturbations,
    trialError,     \* the error computed on the clamped candidate (line 355)
    outcome,        \* of the last iteration: "none", "accepted", "rejected", "diverged"
    accepted,       \* the parameters and error of the last accepted step
    clock,          \* the last value read from Date.now(), ms
    checks,         \* how often checkTimeout was called
    calls           \* how often the factory was called

vars == <<pc, errKind, x, y, fn, options, given, cfg, parameters, damping, error,
          converged, iteration, previousError, perturbations, trialError, outcome,
          accepted, clock, checks, calls>>

NoOptions ==
    [timeout |-> Undef, minValues |-> Undef, maxValues |-> Undef,
     initialValues |-> Undef, weights |-> Undef, damping |-> Undef,
     dampingStepUp |-> Undef, dampingStepDown |-> Undef, maxIterations |-> Undef,
     errorTolerance |-> Undef, centralDifference |-> FALSE,
     gradientDifference |-> Undef, improvementThreshold |-> Undef]

Ints(s) == [i \in 1..Len(s) |-> Int2Num(s[i])]

\* calls that validation may reject: every pair of lengths up to MaxLen, a
\* missing y, and dampings around zero
InvalidCalls ==
    { [x |-> xx, y |-> yy, fn |-> "prop",
       options |-> [NoOptions EXCEPT !.damping = d, !.maxIterations = Num(1)]] :
        xx \in {Arr([i \in 1..n |-> Int2Num(i)]) : n \in 0..MaxLen},
        yy \in {Arr([i \in 1..n |-> Int2Num(2 * i)]) : n \in 0..MaxLen} \cup {Undef},
        d \in {Undef, Num(Zero), Num(Int2Num(-1)), Num(One)} }

\* the minValues and maxValues of a call: none, both the initial values, or
\* the box [2, 3] in every parameter
BoundsOf(b, init) ==
    CASE b = "free" -> <<Undef, Undef>>
      [] b = "pinned" -> <<Arr(Ints(init)), Arr(Ints(init))>>
      [] b = "box" -> <<Arr(Ints([k \in 1..Len(init) |-> 2])),
                        Arr(Ints([k \in 1..Len(init) |-> 3]))>>

\* one-parameter fits: exact and inexact data, linear and non-linear
\* factories, forward and central differences, free and pinned bounds,
\* the default and other thresholds and tolerances
FitCalls ==
    { [x |-> Arr(Ints(<<0, 1>>)), y |-> Arr(Ints(yy)), fn |-> f,
       options |-> [NoOptions EXCEPT
           !.initialValues = Arr(Ints(<<p0>>)),
           !.minValues = BoundsOf(b, <<p0>>)[1],
           !.maxValues = BoundsOf(b, <<p0>>)[2],
           !.damping = Num(One), !.dampingStepUp = Num(Int2Num(2)),
           !.dampingStepDown = Num(Int2Num(2)),
           !.gradientDifference = gd, !.centralDifference = cd,
           !.improvementThreshold = thr, !.errorTolerance = tol,
           !.maxIterations = Num(mi)]] :
        yy \in {<<0, 2>>, <<1, -1>>}, f \in {"prop", "root"}, p0 \in {0, 1},
        b \in {"free", "pinned", "box"},
        gd \in {Num(One), Num(Int2Num(-1))}, cd \in BOOLEAN,
        thr \in {Undef, Num(Int2Num(-4))}, tol \in {Undef, Num(One)},
        mi \in 0..MaxIter }

\* two-parameter fits of a line: every pattern of zero and nonzero
\* gradientDifference entries and an array of the wrong length
LineCalls ==
    { [x |-> Arr(Ints(<<0, 1>>)), y |-> Arr(Ints(<<1, 3>>)), fn |-> "line",
       options |-> [NoOptions EXCEPT
           !.initialValues = init,
           !.damping = Num(One), !.dampingStepUp = Num(Int2Num(2)),
           !.dampingStepDown = Num(Int2Num(2)),
           !.gradientDifference = gd, !.centralDifference = cd,
           !.maxIterations = Num(mi)]] :
        init \in {Undef, Arr(Ints(<<0, 0>>))},
        gd \in {Num(One), Arr(Ints(<<0, 1>>)), Arr(Ints(<<1, 0>>)),
                Arr(Ints(<<0, 0>>)), Arr(Ints(<<1>>))},
        cd \in BOOLEAN,
        mi \in 0..MaxIter }

\* weighted fits: a scalar weight, one weight per sample, a zero weight, an
\* array too short (its first element is broadcast), and not a number
WeightCalls ==
    { [x |-> Arr(Ints(<<0, 1>>)), y |-> Arr(Ints(<<1, 2>>)), fn |-> "prop",
       options |-> [NoOptions EXCEPT
           !.damping = Num(One), !.dampingStepUp = Num(Int2Num(2)),
           !.dampingStepDown = Num(Int2Num(2)),
           !.gradientDifference = Num(One),
           !.weights = w, !.maxIterations = Num(mi)]] :
        w \in {Num(Int2Num(2)), Arr(Ints(<<1, 2>>)), Arr(Ints(<<1, 0>>)),
               Arr(Ints(<<2>>)), Other},
        mi \in 0..MaxIter }

\* fits under a timeout: zero, positive, negative, and not a number
TimeoutCalls ==
    { [x |-> Arr(Ints(<<0, 1>>)), y |-> Arr(Ints(yy)), fn |-> "prop",
       options |-> [NoOptions EXCEPT
           !.initialValues = Arr(Ints(<<p0>>)),
           !.damping = Num(One), !.dampingStepUp = Num(Int2Num(2)),
           !.dampingStepDown = Num(Int2Num(2)),
           !.gradientDifference = Num(One),
           !.timeout = to, !.errorTolerance = tol,
           !.maxIterations = Num(mi)]] :
        yy \in {<<0, 2>>, <<1, -1>>}, p0 \in {0, 1},
        to \in {Num(Zero), Num(Rat(1, 2000)), Num(Rat(-1, 1000)), Other},
        tol \in {Undef, Num(One)},
        mi \in 0..MaxIter }

\* fits whose damping starts at, below and above the clamps 1e-7 and 1e7, with
\* step factors above and below one.  The parameter is held (a zero
\* gradientDifference), so a step changes it only through the box [2, 3].
DampingCalls ==
    { [x |-> Arr(Ints(<<0, 1>>)), y |-> Arr(Ints(yy)), fn |-> "prop",
       options |-> [NoOptions EXCEPT
           !.initialValues = Arr(Ints(<<0>>)),
           !.minValues = BoundsOf("box", <<0>>)[1],
           !.maxValues = BoundsOf("box", <<0>>)[2],
           !.damping = d, !.dampingStepUp = up, !.dampingStepDown = down,
           !.gradientDifference = Num(Zero),
           !.maxIterations = Num(mi)]] :
        yy \in {<<0, 3>>, <<0, -1>>},
        d \in {Undef, Num(DampingMin), Num(Rat(1, 20000000)),
               Num(DampingMax), Num(Int2Num(20000000))},
        up \in {Undef, Num(Rat(1, 2))}, down \in {Undef, Num(Rat(1, 2))},
        mi \in 0..MaxIter }

\* a fit that runs for the default maxIterations: the factory ignores its
\* parameter, so no step is ever accepted
DefaultBudgetCalls ==
    { [x |-> Arr(Ints(<<0, 1>>)), y |-> Arr(Ints(<<0, 2>>)), fn |-> "flat",
       options |-> [NoOptions EXCEPT !.damping = Num(DampingMax)]] }

Calls == InvalidCalls \cup FitCalls \cup LineCalls \cup WeightCalls \cup TimeoutCalls
            \cup DampingCalls \cup DefaultBudgetCalls

NoCfg == Resolved(Arr(<<>>), Arr(<<>>), "prop", NoOptions, Zero)

Init ==
    /\ \E c \in Calls :
        /\ x = c.x
        /\ y = c.y
        /\ fn = c.fn
        /\ options = c.options
        /\ given = c.options
    /\ pc = "start"
    /\ errKind = "none"
    /\ cfg = NoCfg
    /\ parameters = <<>>
    /\ damping = Zero
    /\ error = Zero
    /\ converged = FALSE
    /\ iteration = 0
    /\ previousError = Zero
    /\ perturbations = <<>>
    /\ trialError = Zero
    /\ outcome = "none"
    /\ accepted = [parameters |-> <<>>, error |-> Zero]
    /\ clock = 0
    /\ checks = 0
    /\ calls = 0

\* the loop's own state, untouched outside the loop
loopVars == <<previousError, perturbations, trialError, outcome, checks>>

\* checkOptions (line 323): throws, or returns the resolved bundle.  Date.now()
\* is read only when a timeout is given.
CheckOptions ==
    /\ pc = "start"
    /\ IF OptionsError(x, y, fn, options) # "none"
       THEN /\ pc' = "error"
            /\ errKind' = OptionsError(x, y, fn, options)
            /\ UNCHANGED <<cfg, parameters, damping, clock>>
       ELSE /\ \E dt \in 0..MaxTick :
                /\ clock' = IF options.timeout.t = "undef" THEN clock ELSE clock + dt
                /\ cfg' = Resolved(x, y, fn, options, Int2Num(clock'))
            /\ parameters' = InitialParameters(fn, options)
            /\ damping' = Default(options.damping, DefaultDamping).v
            /\ pc' = "init"
            /\ UNCHANGED errKind
    /\ UNCHANGED <<x, y, fn, options, given, error, converged, iteration, accepted, calls>>
    /\ UNCHANGED loopVars

\* lines 325-334: the initial error, converged, iteration = 0
InitialError ==
    /\ pc = "init"
    /\ error' = errorCalculation(x.v, y.v, parameters, fn, cfg.weightSquare)
    /\ calls' = calls + ErrorCalls
    /\ converged' = Converged(error', cfg.errorTolerance)
    /\ iteration' = 0
    /\ accepted' = [parameters |-> parameters, error |-> error']
    /\ pc' = "loop"
    /\ UNCHANGED <<errKind, x, y, fn, options, given, cfg, parameters, damping, clock>>
    /\ UNCHANGED loopVars

\* one pass of the loop body (lines 336-384) and the iteration++ after it
Iterate ==
    /\ pc = "loop"
    /\ LoopCond(iteration, cfg.maxIterations, converged)
    /\ LET s == step(x.v, y.v, parameters, damping, cfg.gradientDifference, fn,
                     cfg.centralDifference, cfg.weightSquare)
           cand == Candidate(parameters, s.perturbations, cfg.minValues, cfg.maxValues)
           err == errorCalculation(x.v, y.v, cand, fn, cfg.weightSquare)
           metric == ImprovementMetric(error, err, s.perturbations, damping,
                                       s.jacobianWeigthResidualError)
           acc == Accepted(metric, cfg.improvementThreshold)
       IN  /\ previousError' = error
           /\ perturbations' = s.perturbations
           /\ parameters' = cand
           /\ options' = IF options.initialValues.t = "arr"
                         THEN [options EXCEPT !.initialValues = Arr(cand)]
                         ELSE options
           /\ trialError' = err
           /\ calls' = calls + StepCalls(cfg.gradientDifference, cfg.centralDifference)
                             + ErrorCalls
           /\ IF Diverged(err)
              THEN /\ error' = err
                   /\ outcome' = "diverged"
                   /\ pc' = "done"
                   /\ UNCHANGED <<errKind, damping, converged, iteration, accepted,
                                  clock, checks>>
              ELSE /\ error' = IF acc THEN err ELSE error
                   /\ damping' = IF acc THEN DampingDown(damping, cfg.dampingStepDown)
                                 ELSE DampingUp(damping, cfg.dampingStepUp)
                   /\ outcome' = IF acc THEN "accepted" ELSE "rejected"
                   /\ accepted' = IF acc THEN [parameters |-> cand, error |-> err]
                                  ELSE accepted
                   /\ checks' = checks + 1
                   /\ \E dt \in 0..MaxTick :
                        /\ clock' = IF cfg.hasTimeout THEN clock + dt ELSE clock
                        /\ IF cfg.hasTimeout /\ Expired(Int2Num(clock'), cfg.endTime)
                           THEN /\ pc' = "error"
                                /\ errKind' = "timeout"
                                /\ UNCHANGED <<converged, iteration>>
                           ELSE /\ converged' = Converged(error', cfg.errorTolerance)
                                /\ iteration' = iteration + 1
                                /\ pc' = "loop"
                                /\ UNCHANGED errKind
    /\ UNCHANGED <<x, y, fn, given, cfg>>

\* the loop condition fails: lines 387-391 return the result
Return ==
    /\ pc = "loop"
    /\ ~LoopCond(iteration, cfg.maxIterations, converged)
    /\ pc' = "done"
    /\ UNCHANGED <<errKind, x, y, fn, options, given, cfg, parameters, damping, error,
                   converged, iteration, clock, calls, accepted>>
    /\ UNCHANGED loopVars

Next == CheckOptions \/ InitialError \/ Iterate \/ Return

Spec == Init /\ [][Next]_vars

\* what the call returned
Result == [parameterValues |-> parameters, parameterError |-> error,
           iterations |-> iteration]

\* ------------------------------------------------------------ claims

\* checkOptions has returned
Validated == pc \in {"init", "loop", "done"} \/ (pc = "error" /\ errKind = "timeout")

\* the call is over: it returned or threw
Finished == pc \in {"done", "error"}

\* the step just taken was a pass of the loop body
IterateStep == pc = "loop" /\ calls' # calls

\* the inputs C1 is about: both sequences are arrays and their lengths differ
\* or one is shorter than 2, or the damping option is a number <= 0
C1_InvalidInput ==
    \/ /\ x.t = "arr"
       /\ y.t = "arr"
       /\ (Len(x.v) # Len(y.v) \/ Len(x.v) < 2 \/ Len(y.v) < 2)
    \/ /\ given.damping.t = "num"
       /\ Le(given.damping.v, Zero)

\* C1: a call with x and y of unequal length, or one of them shorter than 2, or
\* a damping <= 0 ends with an input error, and the factory has not been called
C1_InputErrorBeforeEvaluation ==
    (C1_InvalidInput /\ pc # "start")
        => /\ pc = "error"
           /\ errKind \in {"input: damping", "input: points", "input: size"}
           /\ calls = 0

\* C1 witness: x and y both long enough, of unequal length, with a valid
\* damping: the call has thrown the size error
C1_Witness ==
    /\ pc = "error"
    /\ errKind = "input: size"
    /\ Len(x.v) >= 2 /\ Len(y.v) >= 2 /\ Len(x.v) # Len(y.v)
    /\ calls = 0

\* C2 as stated: under a positive timeout no call returns a result after more
\* than one iteration
C2_Original ==
    (pc = "done" /\ given.timeout.t = "num" /\ Lt(Zero, given.timeout.v))
        => iteration <= 1

\* C2 amended: the call throws the timeout error exactly when a consultation of
\* the predicate, made once at the end of every iteration that did not diverge,
\* reads a clock strictly past the deadline; otherwise the call goes on
C2_TimeoutWhenDeadlinePassed ==
    /\ (pc = "error" /\ errKind = "timeout")
          => /\ cfg.hasTimeout
             /\ Gt(Int2Num(clock), cfg.endTime)
             /\ outcome \in {"accepted", "rejected"}
             /\ checks = iteration + 1
    /\ (pc \in {"loop", "done"})
          => /\ checks = iteration
             /\ (cfg.hasTimeout /\ checks >= 1) => ~Gt(Int2Num(clock), cfg.endTime)

\* C2 witness: a positive timeout, and the call threw at the end of an iteration
\* that had brought the error within tolerance
C2_Witness ==
    /\ pc = "error"
    /\ errKind = "timeout"
    /\ given.timeout.t = "num"
    /\ Lt(Zero, given.timeout.v)
    /\ Converged(error, cfg.errorTolerance)

\* C3: a call that stops at maxIterations without convergence returns the
\* parameters and the error of the last accepted step (the initial ones if
\* none was accepted)
C3_ReturnsLastAccepted ==
    (pc = "done" /\ iteration = cfg.maxIterations /\ ~converged)
        => /\ Result.parameterValues = accepted.parameters
           /\ Result.parameterError = accepted.error

\* C4 as stated: a returned result is converged exactly when
\* iterations < maxIterations
C4_Original ==
    pc = "done"
        => (Le(Result.parameterError, cfg.errorTolerance)
                <=> Result.iterations < cfg.maxIterations)

\* C4 amended: a result with iterations < maxIterations is converged or has a
\* NaN error; a result that is neither has iterations = maxIterations
C4_BelowBudgetMeansConvergedOrNaN ==
    pc = "done"
        => /\ Result.iterations <= cfg.maxIterations
           /\ Result.iterations < cfg.maxIterations
                => \/ Le(Result.parameterError, cfg.errorTolerance)
                   \/ IsNaN(Result.parameterError)

\* C4 witness: a fit that converged in its last budgeted iteration returns
\* iterations = maxIterations
C4_Witness ==
    /\ pc = "done"
    /\ iteration >= 1
    /\ iteration = cfg.maxIterations
    /\ Le(error, cfg.errorTolerance)

InDampingRange(d) == Le(DampingMin, d) /\ Le(d, DampingMax)

\* C5 as stated: after validation the damping is always within [1e-7, 1e7]
C5_Original == Validated => InDampingRange(damping)

\* C5 amended: after an accepted step the damping is at least 1e-7, after a
\* rejected step at most 1e7; and it is within [1e-7, 1e7] in every state of a
\* fit whose damping option is within it and whose step factors are both >= 1
C5_DampingClamped ==
    Validated
        => /\ outcome = "accepted" => Le(DampingMin, damping)
           /\ outcome = "rejected" => Le(damping, DampingMax)
           /\ ( /\ InDampingRange(Default(given.damping, DefaultDamping).v)
                /\ Le(One, cfg.dampingStepUp)
                /\ Le(One, cfg.dampingStepDown) )
                => InDampingRange(damping)

\* C5 witness: a fit that started within the range, with the default factors,
\* and whose damping an accepted step has clamped at 1e-7
C5_Witness ==
    /\ pc = "loop"
    /\ outcome = "accepted"
    /\ given.dampingStepDown.t = "undef"
    /\ given.damping.t = "num"
    /\ InDampingRange(given.damping.v)
    /\ damping = DampingMin
    /\ Lt(DampingDownUnclamped(given.damping.v, cfg.dampingStepDown), DampingMin)

\* minValues = maxValues = initialValues, elementwise, in the call as made
Pinned ==
    /\ given.initialValues.t = "arr"
    /\ given.minValues = given.initialValues
    /\ given.maxValues = given.initialValues

\* C6 as stated: with minValues = maxValues = initialValues the parameter vector
\* holds the initial values after every iteration
C6_Original == (Pinned /\ Validated) => parameters = given.initialValues.v

\* C6 amended: with minValues = maxValues = initialValues, an iteration that
\* starts from the initial values leaves them in place where the perturbation
\* is not NaN and leaves NaN where it is; and the loop ends: every pass of
\* its body ends the call or counts one more of at most maxIterations
C6_PinnedUnlessNaN ==
    [][ /\ (Pinned /\ IterateStep /\ parameters = given.initialValues.v)
            => \A k \in 1..Len(parameters) :
                  parameters'[k] = IF IsNaN(perturbations'[k]) THEN NaN
                                   ELSE given.initialValues.v[k]
        /\ (Pinned /\ IterateStep)
            => /\ Finished' \/ iteration' = iteration + 1
               /\ iteration' <= cfg.maxIterations ]_vars

\* C6 witness: a pinned fit has run its whole budget of at least two
\* iterations, with nonzero perturbations, and still holds the initial values
C6_Witness ==
    /\ Pinned
    /\ pc = "done"
    /\ iteration >= 2
    /\ perturbations[1] # Zero
    /\ parameters = given.initialValues.v

\* C7 as stated: the recorded error is non-negative in every state and no
\* iteration increases it
C7_Original ==
    [][/\ Validated' => Le(Zero, error')
       /\ IterateStep => Le(error', error)]_vars

\* C7 amended: the recorded error is non-negative or NaN in every state; with
\* improvementThreshold >= 0 and the damping kept positive, an accepted step
\* does not increase it, a rejected step leaves it as it was, and a diverging
\* iteration leaves NaN
C7_ErrorNeverIncreases ==
    [][/\ Validated' => (Le(Zero, error') \/ IsNaN(error'))
       /\ (IterateStep /\ Le(Zero, cfg.improvementThreshold)
             /\ Lt(Zero, damping) /\ Lt(Zero, cfg.dampingStepUp))
            => /\ outcome' = "accepted" => Le(error', error)
               /\ outcome' = "rejected" => error' = error
               /\ outcome' = "diverged" => IsNaN(error')]_vars

\* C7 witness: under the default threshold a step was rejected whose candidate
\* had a larger error than the recorded one
C7_Witness ==
    /\ given.improvementThreshold.t = "undef"
    /\ outcome = "rejected"
    /\ Lt(previousError, trialError)
    /\ error = previousError

C9_OptionsUntouched == Finished => options = given

\* C10: an iteration whose candidate has a NaN error ends the call without an
\* error: the result holds the clamped candidate and the NaN error, the damping
\* and the iteration count are as before the iteration, and the timeout
\* predicate was not consulted
C10_DivergenceStopsSilently ==
    [][(IterateStep /\ IsNaN(trialError'))
         => /\ pc' = "done"
            /\ errKind' = "none"
            /\ parameters' = Candidate(parameters, perturbations',
                                       cfg.minValues, cfg.maxValues)
            /\ IsNaN(error')
            /\ damping' = damping
            /\ iteration' = iteration
            /\ checks' = checks
            /\ clock' = clock]_vars

\* C10 witness: a fit diverged in its second iteration, after an accepted
\* step, and returned iterations = 1 with a NaN error
C10_Witness ==
    /\ pc = "done"
    /\ outcome = "diverged"
    /\ iteration = 1
    /\ IsNaN(Result.parameterError)
    /\ previousError = accepted.error

====
